---- MODULE Spec2Model ----
(***************************************************************************)
(* AWS tag synchronisation of cartography                                  *)
(* (cartography/intel/aws/resourcegroupstaggingapi.py): the identifier     *)
(* normaliser, the tag merge (load_tags), the cleanup job and the sync     *)
(* loop that drives them, over a small labelled graph; and relationship    *)
(* inference (cartography/intel/aws/permission_relationships.py).          *)
(***************************************************************************)
EXTENDS Integers, Sequences, FiniteSets, TLC

VARIABLES
    neo4j,      \* the graph store: [resources, tags, edges]
    clock,      \* the store's timestamp()
    run,        \* per account: the state of its sync() call
    next_tag,   \* the next fresh update tag (one per sync run)
    hist,       \* per account: what the current run observed (history)
    last_load,  \* the arguments of the latest load_tags call of the running sync (history)
    raised_tags, \* <<account, update tag>> of each account's previous run, if it raised (history)
    arn_in,     \* normaliser: the input (resource type, ARN)
    id_out,     \* normaliser: the computed resource id, or "unset"
    principals, \* inference: per principal, its flattened policy statement list
    derived,    \* inference: "unset", or how often each derived edge was emitted
    merges      \* concurrent merges: per load_tags call, its arguments and the rows done

vars == <<neo4j, clock, run, next_tag, hist, last_load, raised_tags, arn_in, id_out, principals, derived, merges>>

(***************************************************************************)
(* Bounds of the model.                                                    *)
(***************************************************************************)
MaxArnLen == 3      \* longest ARN the normaliser is applied to
MaxUpdateTag == 3   \* number of sync runs (each takes a fresh update tag)
MaxClock == 1       \* the store clock runs from 0 to MaxClock
MaxFetchFailures == 1 \* contained get_tags failures per sync run
MaxStatements == 2  \* policy statements of one principal

(***************************************************************************)
(* Identifier normaliser.  ARNs are sequences of characters.               *)
(***************************************************************************)
ArnChars == {"a", "/", ":"}

\* python: s.split(sep), the list of the pieces of s between occurrences of sep
RECURSIVE split(_, _)
split(s, sep) ==
    IF \A i \in 1..Len(s) : s[i] # sep
    THEN <<s>>
    ELSE LET i == CHOOSE k \in 1..Len(s) :
                      s[k] = sep /\ \A j \in 1..(k - 1) : s[j] # sep
         IN  <<SubSeq(s, 1, i - 1)>> \o split(SubSeq(s, i + 1, Len(s)), sep)

\* (mutant) xs[0] for xs[-1]
first_item(xs) == xs[1]

\* python: xs[-1]
last_item(xs) == xs[Len(xs)]

get_short_id_from_ec2_arn(arn) == last_item(split(arn, "/"))

get_bucket_name_from_arn(bucket_arn) == last_item(split(bucket_arn, ":"))

TAG_RESOURCE_TYPE_MAPPINGS ==
    ("ec2:instance" :> [label |-> "EC2Instance", property |-> "id",
                        id_func |-> "get_short_id_from_ec2_arn"]) @@
    ("ec2:network-interface" :> [label |-> "NetworkInterface", property |-> "id",
                                 id_func |-> "get_short_id_from_ec2_arn"]) @@
    ("ec2:security-group" :> [label |-> "EC2SecurityGroup", property |-> "id",
                              id_func |-> "get_short_id_from_ec2_arn"]) @@
    ("ec2:subnet" :> [label |-> "EC2Subnet", property |-> "subnetid",
                      id_func |-> "get_short_id_from_ec2_arn"]) @@
    ("ec2:vpc" :> [label |-> "AWSVpc", property |-> "id",
                   id_func |-> "get_short_id_from_ec2_arn"]) @@
    ("ec2:transit-gateway" :> [label |-> "AWSTransitGateway", property |-> "id"]) @@
    ("ec2:transit-gateway-attachment" :>
        [label |-> "AWSTransitGatewayAttachment", property |-> "id"]) @@
    ("es:domain" :> [label |-> "ESDomain", property |-> "id"]) @@
    ("redshift:cluster" :> [label |-> "RedshiftCluster", property |-> "id"]) @@
    ("rds:db" :> [label |-> "RDSInstance", property |-> "id"]) @@
    ("rds:subgrp" :> [label |-> "DBSubnetGroup", property |-> "id"]) @@
    ("s3" :> [label |-> "S3Bucket", property |-> "id",
              id_func |-> "get_bucket_name_from_arn"])

\* the call through the function pointer stored under 'id_func'
parse_resource_id_from_arn(id_func, arn) ==
    IF id_func = "get_short_id_from_ec2_arn"
    THEN get_short_id_from_ec2_arn(arn)
    ELSE get_bucket_name_from_arn(arn)

compute_resource_id(tag_mapping, resource_type) ==
    IF "id_func" \in DOMAIN TAG_RESOURCE_TYPE_MAPPINGS[resource_type]
    THEN parse_resource_id_from_arn(
             TAG_RESOURCE_TYPE_MAPPINGS[resource_type].id_func,
             tag_mapping.ResourceARN)
    ELSE tag_mapping.ResourceARN

\* transform_tags: every record gets its resource_id
transform_tags(tag_data, resource_type) ==
    [i \in 1..Len(tag_data) |->
        [ResourceARN |-> tag_data[i].ResourceARN,
         Tags        |-> tag_data[i].Tags,
         resource_id |-> compute_resource_id(tag_data[i], resource_type)]]

(***************************************************************************)
(* The graph store.  A resource node is [label, property, id, account,     *)
(* region]: `property` names the identifier property the node carries and  *)
(* `id` is its value; `account` is the AWSAccount it hangs under by a      *)
(* RESOURCE edge.  tags maps the id of each AWSTag node to its properties, *)
(* edges maps each TAGGED edge <<resource node, tag id>> to its            *)
(* properties.                                                             *)
(***************************************************************************)
Accounts == {"A", "B"}

\* the `regions` argument of sync
Regions == <<"r1", "r2">>

\* The keys of TAG_RESOURCE_TYPE_MAPPINGS the sync loop visits, in the order
\* of the dict literal: the ones some modelled account holds resources of.
\* For every other key get_tags returns [] and load_tags of [] is a no-op.
ResourceTypes == <<"ec2:instance", "s3">>

K1 == [Key |-> "a", Value |-> "b:c"]
K2 == [Key |-> "a:b", Value |-> "c"]
K3 == [Key |-> "k", Value |-> "v"]

\* The tag lists a resource can carry upstream.
TagLists == { <<>>, <<K1>>, <<K2, K3>> }

\* What the tagging API of each account knows: the resources it reports and
\* the tag lists each can carry.
ProviderResources ==
    { [account |-> "A", region |-> "r1", resource_type |-> "ec2:instance",
       ResourceARN |-> <<"a", "/", "i">>, tag_lists |-> TagLists],
      [account |-> "A", region |-> "r1", resource_type |-> "ec2:instance",
       ResourceARN |-> <<"a", "/", "g">>, tag_lists |-> { <<K1>> }],
      [account |-> "A", region |-> "r2", resource_type |-> "s3",
       ResourceARN |-> <<"a", ":", "b">>, tag_lists |-> TagLists],
      [account |-> "B", region |-> "r1", resource_type |-> "s3",
       ResourceARN |-> <<"a", ":", "d">>, tag_lists |-> { <<>>, <<K1>> }] }

\* The resource nodes the other intel modules have ingested; the instance
\* a/g is reported by the tagging API and is not in the graph.
ResourceNodes ==
    { [label |-> "EC2Instance", property |-> "id", id |-> <<"i">>,
       account |-> "A", region |-> "r1"],
      [label |-> "S3Bucket", property |-> "id", id |-> <<"b">>,
       account |-> "A", region |-> "r2"],
      [label |-> "S3Bucket", property |-> "id", id |-> <<"d">>,
       account |-> "B", region |-> "r1"] }

EmptyGraph ==
    [resources |-> ResourceNodes,
     tags      |-> [t \in {} |-> 0],
     edges     |-> [e \in {} |-> 0]]

\* aws_tag:AWSTag:Tag{id:input_tag.Key + ":" + input_tag.Value}
tag_id(input_tag) == input_tag.Key \o ":" \o input_tag.Value

\* MATCH (resource:$resource_label{$property:tag_mapping.resource_id})
match_resource(g, q, tag_mapping) ==
    { n \in g.resources : /\ n.label = q.resource_label
                          /\ n.property = q.property
                          /\ n.id = tag_mapping.resource_id }

\* (mutant) firstseen among the properties SET on every merge
merge_aws_tag_set_firstseen(g, q, input_tag) ==
    [nodes       |-> IF tag_id(input_tag) \in DOMAIN g.tags
                     THEN g.tags[tag_id(input_tag)].nodes
                     ELSE 1,
     firstseen   |-> q.timestamp,
     lastupdated |-> q.UpdateTag,
     key         |-> input_tag.Key,
     value       |-> input_tag.Value,
     region      |-> q.Region]

\* (mutant) the region among the properties the MERGE matches on
merge_aws_tag_by_region(g, q, input_tag) ==
    [nodes       |-> IF tag_id(input_tag) \in DOMAIN g.tags
                     THEN IF g.tags[tag_id(input_tag)].region = q.Region
                          THEN g.tags[tag_id(input_tag)].nodes
                          ELSE g.tags[tag_id(input_tag)].nodes + 1
                     ELSE 1,
     firstseen   |-> IF tag_id(input_tag) \in DOMAIN g.tags
                     THEN g.tags[tag_id(input_tag)].firstseen
                     ELSE q.timestamp,
     lastupdated |-> q.UpdateTag,
     key         |-> input_tag.Key,
     value       |-> input_tag.Value,
     region      |-> q.Region]

\* (mutant) CREATE for MERGE: every row adds a tag node
create_aws_tag(g, q, input_tag) ==
    [nodes       |-> IF tag_id(input_tag) \in DOMAIN g.tags
                     THEN g.tags[tag_id(input_tag)].nodes + 1
                     ELSE 1,
     firstseen   |-> IF tag_id(input_tag) \in DOMAIN g.tags
                     THEN g.tags[tag_id(input_tag)].firstseen
                     ELSE q.timestamp,
     lastupdated |-> q.UpdateTag,
     key         |-> input_tag.Key,
     value       |-> input_tag.Value,
     region      |-> q.Region]

\* MERGE(aws_tag...) ON CREATE SET aws_tag.firstseen = timestamp()
\* SET aws_tag.lastupdated, key, value, region
\* nodes is the number of AWSTag nodes with the id: the MERGE creates one
\* when it matches none, and the SET writes every node it matched
merge_aws_tag(g, q, input_tag) ==
    [nodes       |-> IF tag_id(input_tag) \in DOMAIN g.tags
                     THEN g.tags[tag_id(input_tag)].nodes
                     ELSE 1,
     firstseen   |-> IF tag_id(input_tag) \in DOMAIN g.tags
                     THEN g.tags[tag_id(input_tag)].firstseen
                     ELSE q.timestamp,
     lastupdated |-> q.UpdateTag,
     key         |-> input_tag.Key,
     value       |-> input_tag.Value,
     region      |-> q.Region]

\* (mutant) the edge's lastupdated set ON CREATE only
merge_tagged_on_create(g, q, e) ==
    [rels        |-> IF e \in DOMAIN g.edges THEN g.edges[e].rels ELSE 1,
     lastupdated |-> IF e \in DOMAIN g.edges THEN g.edges[e].lastupdated
                                              ELSE q.UpdateTag,
     firstseen   |-> q.timestamp]

\* MERGE (resource)-[r:TAGGED]->(aws_tag)
\* SET r.lastupdated = $UpdateTag, r.firstseen = timestamp()
\* rels is the number of TAGGED edges between the two nodes
merge_tagged(g, q, e) ==
    [rels        |-> IF e \in DOMAIN g.edges THEN g.edges[e].rels ELSE 1,
     lastupdated |-> q.UpdateTag,
     firstseen   |-> q.timestamp]

\* The MERGE and SET clauses of one row, for the resource nodes it matched.
upsert_row(g, q, input_tag, matched) ==
    LET tid     == tag_id(input_tag)
        touched == { <<n, tid>> : n \in matched }
    IN  [resources |-> g.resources,
         tags  |-> [t \in DOMAIN g.tags \cup {tid} |->
                       IF t = tid THEN merge_aws_tag(g, q, input_tag)
                                  ELSE g.tags[t]],
         edges |-> [e \in DOMAIN g.edges \cup touched |->
                       IF e \in touched THEN merge_tagged(g, q, e)
                                        ELSE g.edges[e]]]

\* (mutant) MERGE for MATCH: a missing resource node is created
ingest_row_merge_resource(g, q, tag_mapping, input_tag) ==
    LET matched == match_resource(g, q, tag_mapping)
        created == [label |-> q.resource_label, property |-> q.property,
                    id |-> tag_mapping.resource_id, account |-> "", region |-> q.Region]
    IN  IF matched = {}
        THEN upsert_row([g EXCEPT !.resources = @ \cup {created}], q, input_tag, {created})
        ELSE upsert_row(g, q, input_tag, matched)

\* One row of the double UNWIND: nothing when the MATCH finds no resource.
ingest_row(g, q, tag_mapping, input_tag) ==
    LET matched == match_resource(g, q, tag_mapping)
    IN  IF matched = {}
        THEN g
        ELSE upsert_row(g, q, input_tag, matched)

\* UNWIND tag_mapping.Tags as input_tag
RECURSIVE unwind_tags(_, _, _, _)
unwind_tags(g, q, tag_mapping, i) ==
    IF i > Len(tag_mapping.Tags)
    THEN g
    ELSE unwind_tags(ingest_row(g, q, tag_mapping, tag_mapping.Tags[i]),
                     q, tag_mapping, i + 1)

\* UNWIND $TagData as tag_mapping
RECURSIVE unwind_tag_data(_, _, _, _)
unwind_tag_data(g, q, TagData, i) ==
    IF i > Len(TagData)
    THEN g
    ELSE unwind_tag_data(unwind_tags(g, q, TagData[i], 1), q, TagData, i + 1)

\* the substitutions and the parameters of the query, and the store time
query_parameters(resource_type, region, aws_update_tag, timestamp) ==
    [resource_label |-> TAG_RESOURCE_TYPE_MAPPINGS[resource_type].label,
     property       |-> TAG_RESOURCE_TYPE_MAPPINGS[resource_type].property,
     UpdateTag      |-> aws_update_tag,
     Region         |-> region,
     timestamp      |-> timestamp]

\* The graph after the query of load_tags, run at store time `timestamp`.
load_tags(g, tag_data, resource_type, region, aws_update_tag, timestamp) ==
    unwind_tag_data(
        g, query_parameters(resource_type, region, aws_update_tag, timestamp),
        tag_data, 1)

\* the rows of the double UNWIND, in order: <<tag_mapping, input_tag>>
RECURSIVE unwind_rows(_, _)
unwind_rows(TagData, i) ==
    IF i > Len(TagData)
    THEN <<>>
    ELSE [j \in 1..Len(TagData[i].Tags) |-> <<TagData[i], TagData[i].Tags[j]>>]
         \o unwind_rows(TagData, i + 1)

(***************************************************************************)
(* The cleanup job aws_import_tags_cleanup.json, run by run_cleanup_job    *)
(* with common_job_parameters = {AWS_ID, UPDATE_TAG}: under the account,   *)
(* delete every AWSTag node and every TAGGED edge whose lastupdated is not *)
(* UPDATE_TAG (a deleted node takes its edges with it), then every AWSTag  *)
(* node left without an edge.                                              *)
(***************************************************************************)
\* the tag nodes reached from a resource of the account by a TAGGED edge
tags_under(g, AWS_ID) ==
    { t \in DOMAIN g.tags :
        \E e \in DOMAIN g.edges : e[1].account = AWS_ID /\ e[2] = t }

stale_tags(g, params) ==
    { t \in tags_under(g, params.AWS_ID) :
        g.tags[t].lastupdated # params.UPDATE_TAG }

stale_edges(g, params) ==
    { e \in DOMAIN g.edges : /\ e[1].account = params.AWS_ID
                             /\ g.edges[e].lastupdated # params.UPDATE_TAG }

orphan_tags(tags, edges) == { t \in tags : ~ \E e \in edges : e[2] = t }

run_cleanup_job(g, params) ==
    LET edges1 == { e \in DOMAIN g.edges :
                      e \notin stale_edges(g, params) /\ e[2] \notin stale_tags(g, params) }
        tags1  == DOMAIN g.tags \ stale_tags(g, params)
        tags2  == tags1 \ orphan_tags(tags1, edges1)
    IN  [resources |-> g.resources,
         tags      |-> [t \in tags2 |-> g.tags[t]],
         edges     |-> [e \in edges1 |-> g.edges[e]]]

\* (mutant) cleanup takes a marker of its own instead of the run's
cleanup_own_marker(g, common_job_parameters) ==
    run_cleanup_job(g, [common_job_parameters EXCEPT !.UPDATE_TAG = @ + 1])

cleanup(g, common_job_parameters) == run_cleanup_job(g, common_job_parameters)

(***************************************************************************)
(* get_tags: the ResourceTagMappingList pages of one account, region and   *)
(* resource type filter, concatenated: one record per reported resource,   *)
(* with any of the tag lists.                                              *)
(***************************************************************************)
RECURSIVE tag_mappings(_)
tag_mappings(rs) ==
    IF rs = {}
    THEN { <<>> }
    ELSE LET r == CHOOSE x \in rs : TRUE
         IN  { <<[ResourceARN |-> r.ResourceARN, Tags |-> tl]>> \o rest :
                 tl \in r.tag_lists, rest \in tag_mappings(rs \ {r}) }

get_tags(account, resource_types, region) ==
    tag_mappings({ p \in ProviderResources :
                     /\ p.account = account
                     /\ p.region = region
                     /\ \E i \in 1..Len(resource_types) :
                            resource_types[i] = p.resource_type })

\* aws_handle_regions: a contained client error makes get_tags return []
get_tags_failed == <<>>

(***************************************************************************)
(* Relationship inference (cartography.intel.aws.permission_relationships, *)
(* called by test_map_permissions): for each principal, rule and candidate *)
(* resource of the rule's kind, an edge is derived when a statement of the *)
(* principal allows one of the rule's actions on the resource and no       *)
(* statement of the principal denies it.                                   *)
(***************************************************************************)
Principals == {"u1", "u2"}

\* {target_kind, action_patterns, edge_name}; "g" and "l" stand for the read
\* actions s3:GetObject and s3:ListBucket, "p" for s3:PutObject
Rules ==
    { [target_kind |-> "S3Bucket", action_patterns |-> {<<"g">>, <<"l">>},
       edge_name |-> "CAN_READ"],
      [target_kind |-> "S3Bucket", action_patterns |-> {<<"p">>},
       edge_name |-> "CAN_WRITE"] }

\* glob semantics: * matches any substring, ? one character, any other
\* character itself
RECURSIVE glob_match(_, _)
glob_match(pattern, s) ==
    IF pattern = <<>> THEN s = <<>>
    ELSE IF Head(pattern) = "*"
         THEN \/ glob_match(Tail(pattern), s)
              \/ s # <<>> /\ glob_match(pattern, Tail(s))
    ELSE IF s = <<>> THEN FALSE
    ELSE IF Head(pattern) = "?" THEN glob_match(Tail(pattern), Tail(s))
    ELSE Head(pattern) = Head(s) /\ glob_match(Tail(pattern), Tail(s))

\* the statement's action patterns intersect the rule's action-pattern set
\* and its resource patterns match the candidate resource's identifier
statement_matches(statement, rule, resource) ==
    /\ \E a \in statement.Action : \E r \in rule.action_patterns : glob_match(a, r)
    /\ \E rp \in statement.Resource : glob_match(rp, resource.id)

\* the statements (by position) that justify the edge
allowing(statements, rule, resource) ==
    { i \in 1..Len(statements) :
        /\ statements[i].Effect = "Allow"
        /\ statement_matches(statements[i], rule, resource) }

\* (mutant) a deny counts only when it is listed before the first allow
denied_before_allow(statements, rule, resource) ==
    \E i \in 1..Len(statements) :
        /\ statements[i].Effect = "Deny"
        /\ statement_matches(statements[i], rule, resource)
        /\ \A j \in allowing(statements, rule, resource) : i < j

\* deny precedence: some statement of the principal denies the pair
denied(statements, rule, resource) ==
    \E i \in 1..Len(statements) :
        /\ statements[i].Effect = "Deny"
        /\ statement_matches(statements[i], rule, resource)

\* (mutant) one edge per justifying statement
emitted_per_statement(statements, rule, resource) ==
    IF denied(statements, rule, resource)
    THEN 0
    ELSE Cardinality(allowing(statements, rule, resource))

\* how often the edge (principal, resource, rule.edge_name) is emitted
emitted(statements, rule, resource) ==
    IF allowing(statements, rule, resource) # {} /\ ~ denied(statements, rule, resource)
    THEN 1
    ELSE 0

\* the candidate resource nodes of the rule's kind
candidates(g, rule) == { n \in g.resources : n.label = rule.target_kind }

Triples == Principals \X ResourceNodes \X { r.edge_name : r \in Rules }

\* the output of one inference run over graph g
calculate_permission_relationships(g, ps) ==
    [t \in Triples |->
        LET rule == CHOOSE r \in Rules : r.edge_name = t[3]
        IN  IF t[2] \in candidates(g, rule) THEN emitted(ps[t[1]], rule, t[2]) ELSE 0]

(***************************************************************************)
(* sync(neo4j_session, boto3_session, regions, aws_update_tag,             *)
(*      common_job_parameters), one call per account at a time.            *)
(*   pc = "idle"     never called                                          *)
(*        "loop"     before the iteration (region, resource_type)          *)
(*        "cleanup"  both loops finished, before cleanup(...)              *)
(*        "returned" sync returned                                         *)
(*        "raised"   an exception left sync                                *)
(***************************************************************************)
NotCalled(a) ==
    [pc |-> "idle", region |-> 1, resource_type |-> 1, aws_update_tag |-> 0,
     common_job_parameters |-> [UPDATE_TAG |-> 0, AWS_ID |-> a]]

NoHistory ==
    [merged |-> {}, failed |-> {}, reported |-> {},
     before |-> [tags |-> {}, edges |-> {}], cleanups |-> 0]

NoLoad ==
    [account |-> "A", tag_data |-> <<>>, resource_type |-> "s3", region |-> "r1",
     aws_update_tag |-> 0]

\* the (resource type, resource id, tag id) triples a transformed batch names
named(tag_data, resource_type) ==
    UNION { { <<resource_type, tag_data[i].resource_id, tag_id(tag_data[i].Tags[j])>> :
                j \in 1..Len(tag_data[i].Tags) } : i \in 1..Len(tag_data) }

\* (mutant) cleanup indented into the loop over regions
next_iteration_cleanup_in_loop(r) ==
    IF r.resource_type < Len(ResourceTypes)
    THEN [r EXCEPT !.resource_type = @ + 1]
    ELSE [r EXCEPT !.pc = "cleanup"]

\* the end of one iteration of the inner loop: the next iteration, or the
\* statement after the loops
next_iteration(r) ==
    IF r.resource_type < Len(ResourceTypes)
    THEN [r EXCEPT !.resource_type = @ + 1]
    ELSE IF r.region < Len(Regions)
         THEN [r EXCEPT !.region = @ + 1, !.resource_type = 1]
         ELSE [r EXCEPT !.pc = "cleanup"]

\* the caller starts sync for account a with a fresh update tag, which it
\* also puts in common_job_parameters; the history of a's earlier runs is
\* dropped, except whether the previous one raised
StartSync(a) ==
    /\ \A b \in Accounts : run[b].pc \notin {"loop", "cleanup"}
    /\ next_tag <= MaxUpdateTag
    /\ run' = [run EXCEPT ![a] =
                 [pc |-> "loop", region |-> 1, resource_type |-> 1,
                  aws_update_tag |-> next_tag,
                  common_job_parameters |-> [UPDATE_TAG |-> next_tag, AWS_ID |-> a]]]
    /\ next_tag' = next_tag + 1
    /\ hist' = [hist EXCEPT ![a] =
                  [NoHistory EXCEPT !.before = [tags  |-> DOMAIN neo4j.tags,
                                                edges |-> DOMAIN neo4j.edges]]]
    /\ raised_tags' = { x \in raised_tags : x[1] # a \/ x[2] = run[a].aws_update_tag }
    /\ UNCHANGED <<neo4j, clock, last_load, arn_in, id_out, principals, derived, merges>>

\* lines 127-129 with tag_data the result of get_tags
Iteration(a, fetched, failed) ==
    LET region        == Regions[run[a].region]
        resource_type == ResourceTypes[run[a].resource_type]
        tag_data      == transform_tags(fetched, resource_type)
    IN  /\ neo4j' = load_tags(neo4j, tag_data, resource_type, region,
                              run[a].aws_update_tag, clock)
        /\ last_load' = [account |-> a, tag_data |-> tag_data,
                         resource_type |-> resource_type, region |-> region,
                         aws_update_tag |-> run[a].aws_update_tag]
        /\ hist' = [hist EXCEPT
                      ![a].merged = @ \cup {<<region, resource_type>>},
                      ![a].failed = IF failed THEN @ \cup {<<region, resource_type>>}
                                              ELSE @,
                      ![a].reported = @ \cup named(tag_data, resource_type)]
        /\ run' = [run EXCEPT ![a] = next_iteration(@)]
        /\ UNCHANGED <<clock, next_tag, raised_tags, arn_in, id_out, principals, derived, merges>>

SyncIteration(a) ==
    /\ run[a].pc = "loop"
    /\ \E fetched \in get_tags(a, <<ResourceTypes[run[a].resource_type]>>,
                               Regions[run[a].region]) :
          Iteration(a, fetched, FALSE)

SyncIterationFetchFailed(a) ==
    /\ run[a].pc = "loop"
    /\ Cardinality(hist[a].failed) < MaxFetchFailures
    /\ Iteration(a, get_tags_failed, TRUE)

\* (mutant) cleanup in a finally clause: it runs when the loop raises
SyncRaise_cleanup_in_finally(a) ==
    /\ run[a].pc = "loop"
    /\ run' = [run EXCEPT ![a].pc = "raised", ![a].region = 1, ![a].resource_type = 1]
    /\ raised_tags' = raised_tags \cup {<<a, run[a].aws_update_tag>>}
    /\ neo4j' = run_cleanup_job(neo4j, run[a].common_job_parameters)
    /\ hist' = [hist EXCEPT ![a] = [NoHistory EXCEPT !.cleanups = 1]]
    /\ last_load' = NoLoad
    /\ UNCHANGED <<clock, next_tag, arn_in, id_out, principals, derived, merges>>

\* an exception of get_tags, transform_tags or load_tags leaves sync; the
\* query of load_tags is one transaction, so nothing of it is applied
SyncRaise(a) ==
    /\ run[a].pc = "loop"
    /\ run' = [run EXCEPT ![a].pc = "raised", ![a].region = 1, ![a].resource_type = 1]
    /\ raised_tags' = raised_tags \cup {<<a, run[a].aws_update_tag>>}
    /\ hist' = [hist EXCEPT ![a] = NoHistory]
    /\ last_load' = NoLoad
    /\ UNCHANGED <<neo4j, clock, next_tag, arn_in, id_out, principals, derived, merges>>

\* line 130
SyncCleanup(a) ==
    /\ run[a].pc = "cleanup"
    /\ neo4j' = cleanup(neo4j, run[a].common_job_parameters)
    /\ hist' = [hist EXCEPT ![a].cleanups = @ + 1,
                             ![a].failed = {},
                             ![a].before = NoHistory.before]
    /\ run' = [run EXCEPT ![a].pc = "returned"]
    /\ last_load' = NoLoad
    /\ UNCHANGED <<clock, next_tag, raised_tags, arn_in, id_out, principals, derived, merges>>

\* the store clock advances; only load_tags reads it, so its advance is
\* modelled while a sync loop is running
Tick ==
    /\ clock < MaxClock
    /\ \E a \in Accounts : run[a].pc = "loop"
    /\ clock' = clock + 1
    /\ UNCHANGED <<neo4j, run, next_tag, hist, last_load, raised_tags, arn_in, id_out, principals, derived, merges>>

NoArn == [resource_type |-> "s3", ResourceARN |-> <<>>]

\* no concurrent load_tags calls
NoMerges == <<>>

\* no inference run: no principal has a statement
NoPrincipals == [p \in Principals |-> <<>>]

Init ==
    /\ neo4j = EmptyGraph
    /\ clock = 0
    /\ run = [a \in Accounts |-> NotCalled(a)]
    /\ next_tag = 1
    /\ hist = [a \in Accounts |-> NoHistory]
    /\ last_load = NoLoad
    /\ raised_tags = {}
    /\ arn_in = NoArn
    /\ id_out = <<"unset">>
    /\ principals = NoPrincipals
    /\ derived = <<"unset">>
    /\ merges = NoMerges

Next ==
    \/ \E a \in Accounts : StartSync(a)
    \/ \E a \in Accounts : SyncIteration(a)
    \/ \E a \in Accounts : SyncIterationFetchFailed(a)
    \/ \E a \in Accounts : SyncRaise(a)
    \/ \E a \in Accounts : SyncCleanup(a)
    \/ Tick

Spec == Init /\ [][Next]_vars

(***************************************************************************)
(* The normaliser on its own: any resource type of the table, any ARN.     *)
(***************************************************************************)
Arns == UNION { [1..n -> ArnChars] : n \in 0..MaxArnLen }

InitNorm ==
    /\ neo4j = EmptyGraph
    /\ clock = 0
    /\ run = [a \in Accounts |-> NotCalled(a)]
    /\ next_tag = 1
    /\ hist = [a \in Accounts |-> NoHistory]
    /\ last_load = NoLoad
    /\ raised_tags = {}
    /\ arn_in \in [resource_type : DOMAIN TAG_RESOURCE_TYPE_MAPPINGS, ResourceARN : Arns]
    /\ id_out = <<"unset">>
    /\ principals = NoPrincipals
    /\ derived = <<"unset">>
    /\ merges = NoMerges

Normalize ==
    /\ id_out = <<"unset">>
    /\ id_out' = <<"set", compute_resource_id(arn_in, arn_in.resource_type)>>
    /\ UNCHANGED <<neo4j, clock, run, next_tag, hist, last_load, raised_tags, arn_in,
                   principals, derived, merges>>

NextNorm == Normalize

SpecNorm == InitNorm /\ [][NextNorm]_vars

(***************************************************************************)
(* Relationship inference on its own: any statement list for principal u1, *)
(* none or one allow-all statement for principal u2, over the resource     *)
(* nodes of the graph.                                                     *)
(***************************************************************************)
Statements ==
    [Effect   : {"Allow", "Deny"},
     Action   : { {<<"g">>}, {<<"p">>}, {<<"*">>} },
     Resource : { {<<"b">>}, {<<"d">>}, {<<"*">>} }]

StatementLists == UNION { [1..n -> Statements] : n \in 0..MaxStatements }

AllowAll == [Effect |-> "Allow", Action |-> {<<"*">>}, Resource |-> {<<"*">>}]

InitInfer ==
    /\ neo4j = EmptyGraph
    /\ clock = 0
    /\ run = [a \in Accounts |-> NotCalled(a)]
    /\ next_tag = 1
    /\ hist = [a \in Accounts |-> NoHistory]
    /\ last_load = NoLoad
    /\ raised_tags = {}
    /\ arn_in = NoArn
    /\ id_out = <<"unset">>
    /\ \E s1 \in StatementLists, s2 \in { <<>>, <<AllowAll>> } :
          principals = [p \in Principals |-> IF p = "u1" THEN s1 ELSE s2]
    /\ derived = <<"unset">>
    /\ merges = NoMerges

\* one inference run
Infer ==
    /\ derived = <<"unset">>
    /\ derived' = <<"set", calculate_permission_relationships(neo4j, principals)>>
    /\ UNCHANGED <<neo4j, clock, run, next_tag, hist, last_load, raised_tags, arn_in,
                   id_out, principals, merges>>

NextInfer == Infer

SpecInfer == InitInfer /\ [][NextInfer]_vars

(***************************************************************************)
(* Concurrent merges: the load_tags calls of one run (update tag 1) for    *)
(* two regions of account A, their rows applied one atomic upsert at a     *)
(* time in any interleaving, starting from a graph without tags.           *)
(***************************************************************************)
merge_of(region, resource_type, aws_update_tag, fetched) ==
    [region |-> region, resource_type |-> resource_type,
     aws_update_tag |-> aws_update_tag,
     tag_data |-> transform_tags(fetched, resource_type), done |-> 0]

InitMerge ==
    /\ neo4j = EmptyGraph
    /\ clock = 0
    /\ run = [a \in Accounts |-> NotCalled(a)]
    /\ next_tag = 1
    /\ hist = [a \in Accounts |-> NoHistory]
    /\ last_load = NoLoad
    /\ raised_tags = {}
    /\ arn_in = NoArn
    /\ id_out = <<"unset">>
    /\ principals = NoPrincipals
    /\ derived = <<"unset">>
    /\ \E f1 \in get_tags("A", <<"ec2:instance">>, "r1"),
          f2 \in get_tags("A", <<"s3">>, "r2") :
          merges = << merge_of("r1", "ec2:instance", 1, f1),
                      merge_of("r2", "s3", 1, f2) >>

\* the next row of merge w is applied: one atomic upsert
MergeRow(w) ==
    LET m    == merges[w]
        rows == unwind_rows(m.tag_data, 1)
    IN  /\ m.done < Len(rows)
        /\ neo4j' = ingest_row(neo4j,
                               query_parameters(m.resource_type, m.region,
                                                m.aws_update_tag, clock),
                               rows[m.done + 1][1], rows[m.done + 1][2])
        /\ merges' = [merges EXCEPT ![w].done = @ + 1]
        /\ UNCHANGED <<clock, run, next_tag, hist, last_load, raised_tags, arn_in,
                       id_out, principals, derived>>

TickMerge ==
    /\ clock < MaxClock
    /\ \E w \in DOMAIN merges : merges[w].done < Len(unwind_rows(merges[w].tag_data, 1))
    /\ clock' = clock + 1
    /\ UNCHANGED <<neo4j, run, next_tag, hist, last_load, raised_tags, arn_in,
                   id_out, principals, derived, merges>>

NextMerge ==
    \/ \E w \in DOMAIN merges : MergeRow(w)
    \/ TickMerge

SpecMerge == InitMerge /\ [][NextMerge]_vars

(***************************************************************************)
(* Steps of sync, recognised in a transition.                              *)
(***************************************************************************)
AllPairs == { <<Regions[i], ResourceTypes[j]>> :
                i \in 1..Len(Regions), j \in 1..Len(ResourceTypes) }

\* account a completed load_tags of one iteration
LoadStep(a) ==
    /\ run[a].pc = "loop"
    /\ run'[a].pc \in {"loop", "cleanup"}
    /\ run'[a] # run[a]

\* account a ran cleanup
CleanupStep(a) == run[a].pc = "cleanup" /\ run'[a].pc = "returned"

\* an exception left the sync of account a
RaiseStep(a) == run[a].pc = "loop" /\ run'[a].pc = "raised"

\* the resource nodes a (resource type, resource id) names
nodes_of(g, resource_type, resource_id) ==
    { n \in g.resources :
        /\ n.label = TAG_RESOURCE_TYPE_MAPPINGS[resource_type].label
        /\ n.property = TAG_RESOURCE_TYPE_MAPPINGS[resource_type].property
        /\ n.id = resource_id }

\* the TAGGED edges a transformed batch names between existing nodes
named_edges(g, tag_data, resource_type) ==
    { e \in g.resources \X { x[3] : x \in named(tag_data, resource_type) } :
        \E x \in named(tag_data, resource_type) :
            e[1] \in nodes_of(g, x[1], x[2]) /\ e[2] = x[3] }

(***************************************************************************)
(* C1: applying load_tags a second time with the same batch, resource      *)
(* type, region and update tag, at the same or a later store time, leaves  *)
(* the graph exactly as the first application left it.                     *)
(***************************************************************************)
C1_LoadTagsIdempotent ==
    [][\A a \in Accounts :
          LoadStep(a) =>
              \A t \in clock'..MaxClock :
                  load_tags(neo4j', last_load'.tag_data, last_load'.resource_type,
                            last_load'.region, last_load'.aws_update_tag, t) = neo4j']_vars

(***************************************************************************)
(* C2: the cleanup of a sync run starts only when load_tags has completed  *)
(* for every (region, resource type) pair of the run, and a run that       *)
(* returned has invoked cleanup exactly once.                              *)
(***************************************************************************)
C2_CleanupAfterAllMerges ==
    \A a \in Accounts :
        /\ (run[a].pc = "cleanup" \/ hist[a].cleanups > 0) => hist[a].merged = AllPairs
        /\ run[a].pc = "returned" => hist[a].cleanups = 1
        /\ run[a].pc \in {"loop", "cleanup"} => hist[a].cleanups = 0

C2_Witness ==
    \E a \in Accounts :
        /\ run[a].pc = "returned"
        /\ hist[a].cleanups = 1
        /\ hist[a].merged = AllPairs
        /\ DOMAIN neo4j.edges # {}

(***************************************************************************)
(* C3: when get_tags fails for a (region, resource type) pair and the      *)
(* failure is contained, the run still merges every pair, and the run's    *)
(* cleanup keeps every TAGGED edge, and the tag node it points to, that    *)
(* the failed pair's resources had before the run.                         *)
(***************************************************************************)
C3_FetchFailureKeepsTags ==
    [][\A a \in Accounts :
          CleanupStep(a) =>
              /\ hist[a].merged = AllPairs
              /\ \A p \in hist[a].failed :
                    \A e \in hist[a].before.edges :
                        ( /\ e[1].account = a
                          /\ e[1].region = p[1]
                          /\ e[1].label = TAG_RESOURCE_TYPE_MAPPINGS[p[2]].label )
                        => /\ e \in DOMAIN neo4j'.edges
                           /\ e[2] \in DOMAIN neo4j'.tags]_vars

(***************************************************************************)
(* C4: a sync run that raises never invokes cleanup; the raise leaves the  *)
(* graph as the committed upserts made it, and no step of the merge phase  *)
(* deletes a tag node or an edge; the cleanup of a later run that returns  *)
(* keeps every tag node and TAGGED edge that run reported for an existing  *)
(* resource, whatever update tags earlier raised runs wrote.               *)
(***************************************************************************)
C4_RaiseSkipsCleanup ==
    /\ [](\A a \in Accounts : run[a].pc = "raised" => hist[a].cleanups = 0)
    /\ [][\A a \in Accounts :
             /\ RaiseStep(a) => neo4j' = neo4j
             /\ run[a].pc = "loop" =>
                   /\ DOMAIN neo4j.tags \subseteq DOMAIN neo4j'.tags
                   /\ DOMAIN neo4j.edges \subseteq DOMAIN neo4j'.edges
             /\ CleanupStep(a) =>
                   \A x \in hist[a].reported :
                       \A n \in nodes_of(neo4j, x[1], x[2]) :
                           /\ <<n, x[3]>> \in DOMAIN neo4j'.edges
                           /\ x[3] \in DOMAIN neo4j'.tags]_vars

\* account a returned from a run that re-observed tags, right after a run
\* of a that raised
C4_Witness ==
    \E a \in Accounts :
        /\ run[a].pc = "returned"
        /\ <<a, run[a].aws_update_tag - 1>> \in raised_tags
        /\ \E e \in DOMAIN neo4j.edges :
              /\ e[1].account = a
              /\ neo4j.edges[e].lastupdated = run[a].aws_update_tag
              /\ neo4j.edges[e].firstseen < clock

(***************************************************************************)
(* C5: cleanup of an account with update tag v deletes exactly the TAGGED  *)
(* edges and the tag nodes under the account whose lastupdated is not v,   *)
(* and the tag nodes left without an edge; every TAGGED edge with          *)
(* lastupdated = v survives with the tag node it points to, and no         *)
(* resource node is deleted.                                               *)
(***************************************************************************)
C5_CleanupDeletesExactlyStale ==
    [][\A a \in Accounts :
          CleanupStep(a) =>
              LET v  == run[a].common_job_parameters.UPDATE_TAG
                  E  == DOMAIN neo4j.edges
                  T  == DOMAIN neo4j.tags
                  E1 == DOMAIN neo4j'.edges
                  T1 == DOMAIN neo4j'.tags
                  staleE == { e \in E : e[1].account = a /\ neo4j.edges[e].lastupdated # v }
                  staleT == { t \in T : /\ neo4j.tags[t].lastupdated # v
                                        /\ \E e \in E : e[1].account = a /\ e[2] = t }
              IN  /\ E \ E1 = staleE
                  /\ staleT \subseteq T \ T1
                  /\ \A t \in (T \ T1) \ staleT : ~ \E e \in E1 : e[2] = t
                  /\ \A t \in T1 : \E e \in E1 : e[2] = t
                  /\ \A e \in E : neo4j.edges[e].lastupdated = v =>
                                      e \in E1 /\ e[2] \in T1
                  /\ E1 \subseteq E /\ T1 \subseteq T
                  /\ neo4j'.resources = neo4j.resources]_vars

(***************************************************************************)
(* C6: once the sync of an account has returned, a resource node of the    *)
(* account has a TAGGED edge to a tag node if and only if that run         *)
(* reported the tag on the resource, and no tag node is left without a     *)
(* TAGGED edge.                                                            *)
(***************************************************************************)
C6_EdgesAreLatestReport ==
    /\ \A a \in Accounts :
          run[a].pc = "returned" =>
              { e \in DOMAIN neo4j.edges : e[1].account = a }
                  = { e \in neo4j.resources \X { x[3] : x \in hist[a].reported } :
                        /\ e[1].account = a
                        /\ \E x \in hist[a].reported :
                              e[1] \in nodes_of(neo4j, x[1], x[2]) /\ e[2] = x[3] }
    /\ \A t \in DOMAIN neo4j.tags : \E e \in DOMAIN neo4j.edges : e[2] = t

(***************************************************************************)
(* C7: the cleanup of one account deletes no TAGGED edge of a resource of  *)
(* another account and no tag node that a TAGGED edge of another account,  *)
(* stamped with that account's latest update tag, points to.               *)
(***************************************************************************)
C7_CleanupStaysInScope ==
    [][\A a \in Accounts :
          CleanupStep(a) =>
              \A e \in DOMAIN neo4j.edges :
                  e[1].account # a =>
                      /\ e \in DOMAIN neo4j'.edges
                      /\ neo4j.edges[e].lastupdated = run[e[1].account].aws_update_tag
                            => e[2] \in DOMAIN neo4j'.tags]_vars

(***************************************************************************)
(* C8: the pairs of a batch whose resource node does not exist change      *)
(* nothing: load_tags leaves the graph as the batch without those records  *)
(* leaves it (the other pairs are applied), creates no resource node and   *)
(* no tag node or edge for a tag that only such records carry.             *)
(***************************************************************************)
\* the records of a transformed batch whose resource node exists
matched_records(g, tag_data, resource_type) ==
    SelectSeq(tag_data, LAMBDA m : nodes_of(g, resource_type, m.resource_id) # {})

C8_MissingResourceIsSkipped ==
    [][\A a \in Accounts :
          LoadStep(a) =>
              LET b  == last_load'
                  mr == matched_records(neo4j, b.tag_data, b.resource_type)
              IN  /\ neo4j' = load_tags(neo4j, mr, b.resource_type, b.region,
                                        b.aws_update_tag, clock)
                  /\ neo4j'.resources = neo4j.resources
                  /\ \A e \in DOMAIN neo4j'.edges : e[1] \in neo4j.resources
                  /\ \A t \in DOMAIN neo4j'.tags \ DOMAIN neo4j.tags :
                        \E x \in named(mr, b.resource_type) : x[3] = t
                  /\ \A t \in DOMAIN neo4j.tags :
                        (~ \E x \in named(mr, b.resource_type) : x[3] = t)
                            => neo4j'.tags[t] = neo4j.tags[t]]_vars

\* a batch with a record for a missing resource and a record for an
\* existing one has just been loaded
C8_Witness ==
    /\ \E i \in 1..Len(last_load.tag_data) :
          /\ nodes_of(neo4j, last_load.resource_type, last_load.tag_data[i].resource_id) = {}
          /\ last_load.tag_data[i].Tags # <<>>
    /\ \E e \in named_edges(neo4j, last_load.tag_data, last_load.resource_type) :
          /\ e \in DOMAIN neo4j.edges
          /\ neo4j.edges[e].lastupdated = last_load.aws_update_tag
    /\ \E t \in DOMAIN neo4j.tags : neo4j.tags[t].lastupdated # last_load.aws_update_tag

(***************************************************************************)
(* C9: load_tags with update tag v sets lastupdated to v on every tag node *)
(* and TAGGED edge the batch names for an existing resource, and leaves    *)
(* the lastupdated of every other tag node and TAGGED edge as it was.      *)
(***************************************************************************)
C9_LastupdatedRefresh ==
    [][\A a \in Accounts :
          LoadStep(a) =>
              LET b  == last_load'
                  ne == named_edges(neo4j, b.tag_data, b.resource_type)
                  nt == { e[2] : e \in ne }
              IN  /\ \A e \in ne : /\ e \in DOMAIN neo4j'.edges
                                   /\ neo4j'.edges[e].lastupdated = b.aws_update_tag
                  /\ \A t \in nt : /\ t \in DOMAIN neo4j'.tags
                                   /\ neo4j'.tags[t].lastupdated = b.aws_update_tag
                  /\ \A e \in DOMAIN neo4j.edges \ ne :
                        /\ e \in DOMAIN neo4j'.edges
                        /\ neo4j'.edges[e].lastupdated = neo4j.edges[e].lastupdated
                  /\ \A t \in DOMAIN neo4j.tags \ nt :
                        /\ t \in DOMAIN neo4j'.tags
                        /\ neo4j'.tags[t].lastupdated = neo4j.tags[t].lastupdated]_vars

\* a batch has just been loaded with update tag 2 over a graph loaded with
\* update tag 1: an edge it names is at 2, a tag node and an edge it does
\* not name are still at 1
C9_Witness ==
    /\ last_load.aws_update_tag = 2
    /\ \E e \in named_edges(neo4j, last_load.tag_data, last_load.resource_type) :
          /\ e \in DOMAIN neo4j.edges
          /\ neo4j.edges[e].lastupdated = 2
          /\ neo4j.tags[e[2]].firstseen < clock
    /\ \E e \in DOMAIN neo4j.edges : neo4j.edges[e].lastupdated = 1
    /\ \E t \in DOMAIN neo4j.tags : neo4j.tags[t].lastupdated = 1

(***************************************************************************)
(* C10: compute_resource_id returns, for the resource types with the EC2   *)
(* override, the part of the ARN after its last "/"; for "s3" the part     *)
(* after its last ":"; for every other resource type the ARN itself; an    *)
(* ARN without the separator is returned unchanged, and every input has a  *)
(* result.                                                                 *)
(***************************************************************************)
Ec2OverrideTypes ==
    {"ec2:instance", "ec2:network-interface", "ec2:security-group", "ec2:subnet",
     "ec2:vpc"}

\* r is what follows the last sep of s (s itself when s holds no sep)
IsAfterLast(r, s, sep) ==
    IF \A i \in 1..Len(s) : s[i] # sep
    THEN r = s
    ELSE \E k \in 1..Len(s) :
            /\ s[k] = sep
            /\ \A j \in (k + 1)..Len(s) : s[j] # sep
            /\ r = SubSeq(s, k + 1, Len(s))

C10_ComputeResourceId ==
    id_out # <<"unset">> =>
        /\ Len(id_out) = 2
        /\ id_out[1] = "set"
        /\ id_out[2] \in Arns
        /\ arn_in.resource_type \in Ec2OverrideTypes
              => IsAfterLast(id_out[2], arn_in.ResourceARN, "/")
        /\ arn_in.resource_type = "s3"
              => IsAfterLast(id_out[2], arn_in.ResourceARN, ":")
        /\ arn_in.resource_type \notin Ec2OverrideTypes \cup {"s3"}
              => id_out[2] = arn_in.ResourceARN

\* an EC2 ARN with two "/" has been normalised to what follows the second
C10_Witness ==
    /\ id_out # <<"unset">>
    /\ arn_in.resource_type = "ec2:subnet"
    /\ arn_in.ResourceARN = <<"/", "/", "a">>
    /\ id_out[2] = <<"a">>

(***************************************************************************)
(* C11: in relationship inference, for every principal, rule and candidate *)
(* resource, when some statement of the principal has effect deny and      *)
(* matches the rule's action and the resource, the edge (principal,        *)
(* resource, edge name) is not emitted, whatever allow statements the      *)
(* principal has and wherever in the list the deny stands.                 *)
(***************************************************************************)
C11_DenyPrecedence ==
    derived[1] = "set" =>
        \A p \in Principals : \A rule \in Rules : \A n \in neo4j.resources :
            (\E i \in 1..Len(principals[p]) :
                 /\ principals[p][i].Effect = "Deny"
                 /\ statement_matches(principals[p][i], rule, n))
            => derived[2][<<p, n, rule.edge_name>>] = 0

\* u1 allows reading bucket b in its first statement and denies it in a
\* later one: no CAN_READ edge to b, while u2 has one
C11_Witness ==
    /\ derived[1] = "set"
    /\ \E rule \in Rules : \E n \in neo4j.resources :
          /\ rule.edge_name = "CAN_READ"
          /\ n.id = <<"b">>
          /\ Len(principals["u1"]) = 2
          /\ principals["u1"][1].Effect = "Allow"
          /\ statement_matches(principals["u1"][1], rule, n)
          /\ principals["u1"][2].Effect = "Deny"
          /\ statement_matches(principals["u1"][2], rule, n)
          /\ derived[2][<<"u1", n, "CAN_READ">>] = 0
          /\ derived[2][<<"u2", n, "CAN_READ">>] = 1

(***************************************************************************)
(* C12: the output of an inference run holds each (principal, resource,    *)
(* edge name) triple at most once, however many allow statements justify   *)
(* it; a principal allowed to read exactly one bucket of the graph gets    *)
(* exactly one CAN_READ edge.                                              *)
(***************************************************************************)
RECURSIVE rel_count(_, _)
rel_count(d, ts) ==
    IF ts = {} THEN 0
    ELSE LET t == CHOOSE x \in ts : TRUE IN d[t] + rel_count(d, ts \ {t})

\* the buckets principal p may read: an allow statement matches, no deny does
readable(p) ==
    { n \in neo4j.resources :
        /\ n.label = "S3Bucket"
        /\ \E rule \in Rules :
              /\ rule.edge_name = "CAN_READ"
              /\ \E i \in 1..Len(principals[p]) :
                    /\ principals[p][i].Effect = "Allow"
                    /\ statement_matches(principals[p][i], rule, n)
              /\ ~ \E i \in 1..Len(principals[p]) :
                    /\ principals[p][i].Effect = "Deny"
                    /\ statement_matches(principals[p][i], rule, n) }

C12_NoDuplicateEdges ==
    derived[1] = "set" =>
        /\ \A t \in Triples : derived[2][t] <= 1
        /\ \A p \in Principals :
              Cardinality(readable(p)) = 1 =>
                  rel_count(derived[2], { t \in Triples : t[1] = p /\ t[3] = "CAN_READ" }) = 1

\* two allow statements of u1 justify reading bucket b, its only readable
\* bucket: one CAN_READ edge
C12_Witness ==
    /\ derived[1] = "set"
    /\ Len(principals["u1"]) = 2
    /\ \A i \in 1..2 : /\ principals["u1"][i].Effect = "Allow"
                        /\ principals["u1"][i].Resource = {<<"b">>}
                        /\ \E a \in principals["u1"][i].Action : glob_match(a, <<"g">>)
    /\ readable("u1") = { n \in neo4j.resources : n.id = <<"b">> }
    /\ rel_count(derived[2], { t \in Triples : t[1] = "u1" /\ t[3] = "CAN_READ" }) = 1

(***************************************************************************)
(* C13: after any sequence of load_tags calls the graph holds one tag node *)
(* per tag id and one TAGGED edge per (resource node, tag node) pair, and  *)
(* a load_tags call adds no node for a tag id and no edge for a pair that  *)
(* the graph already has.                                                  *)
(***************************************************************************)
C13_NoDuplicateNodesOrEdges ==
    /\ [](/\ \A t \in DOMAIN neo4j.tags : neo4j.tags[t].nodes = 1
          /\ \A e \in DOMAIN neo4j.edges : neo4j.edges[e].rels = 1)
    /\ [][\A a \in Accounts :
             LoadStep(a) =>
                 /\ \A t \in DOMAIN neo4j.tags : neo4j'.tags[t].nodes = neo4j.tags[t].nodes
                 /\ \A e \in DOMAIN neo4j.edges : neo4j'.edges[e].rels = neo4j.edges[e].rels]_vars

\* the second run of an account has re-merged, with update tag 2, an edge
\* and its tag node that the graph held when the run started
C13_Witness ==
    \E a \in Accounts :
        /\ run[a].pc \in {"loop", "cleanup"}
        /\ run[a].aws_update_tag = 2
        /\ \E e \in hist[a].before.edges :
              /\ e \in DOMAIN neo4j.edges
              /\ neo4j.edges[e].lastupdated = 2
              /\ neo4j.edges[e].rels = 1
              /\ neo4j.tags[e[2]].lastupdated = 2
              /\ neo4j.tags[e[2]].nodes = 1

(***************************************************************************)
(* C14: a tag node stands for exactly one (key, value) pair: after a       *)
(* load_tags call the node of every tag merged for a resource carries that *)
(* tag's key and value, and a node the graph already had still carries the *)
(* key and value it had, so that every resource with a TAGGED edge to it   *)
(* was reported with them (also when a key or a value holds ":").          *)
(***************************************************************************)
C14_TagNodeIsOnePair ==
    [][\A a \in Accounts :
          LoadStep(a) =>
              LET b == last_load'
              IN  /\ \A i \in 1..Len(b.tag_data) :
                        nodes_of(neo4j, b.resource_type, b.tag_data[i].resource_id) # {} =>
                            \A j \in 1..Len(b.tag_data[i].Tags) :
                                LET input_tag == b.tag_data[i].Tags[j]
                                IN  /\ tag_id(input_tag) \in DOMAIN neo4j'.tags
                                    /\ neo4j'.tags[tag_id(input_tag)].key = input_tag.Key
                                    /\ neo4j'.tags[tag_id(input_tag)].value = input_tag.Value
                  /\ \A t \in DOMAIN neo4j.tags :
                        /\ neo4j'.tags[t].key = neo4j.tags[t].key
                        /\ neo4j'.tags[t].value = neo4j.tags[t].value]_vars

(***************************************************************************)
(* C15: within one sync call every load_tags call receives the call's      *)
(* aws_update_tag, cleanup compares against that same value, and the       *)
(* cleanup of the run deletes no tag node and no TAGGED edge that the      *)
(* merges of the run wrote (those whose lastupdated is the run's update    *)
(* tag).                                                                   *)
(***************************************************************************)
C15_CleanupUsesMergeMarker ==
    /\ [](\A a \in Accounts :
             run[a].pc \in {"loop", "cleanup"} =>
                 /\ run[a].common_job_parameters.UPDATE_TAG = run[a].aws_update_tag
                 /\ last_load.aws_update_tag \in {0, run[a].aws_update_tag})
    /\ [][\A a \in Accounts :
             /\ LoadStep(a) => last_load'.aws_update_tag = run[a].aws_update_tag
             /\ CleanupStep(a) =>
                   /\ \A t \in DOMAIN neo4j.tags :
                         neo4j.tags[t].lastupdated = run[a].aws_update_tag =>
                             t \in DOMAIN neo4j'.tags
                   /\ \A e \in DOMAIN neo4j.edges :
                         neo4j.edges[e].lastupdated = run[a].aws_update_tag =>
                             e \in DOMAIN neo4j'.edges]_vars

\* the first run returned: its cleanup has run and the two tag nodes and
\* the edges its merges wrote are in the graph
C15_Witness ==
    \E a \in Accounts :
        /\ run[a].pc = "returned"
        /\ run[a].aws_update_tag = 1
        /\ Cardinality({ t \in DOMAIN neo4j.tags : neo4j.tags[t].lastupdated = 1 }) = 2
        /\ \E e \in DOMAIN neo4j.edges : neo4j.edges[e].lastupdated = 1

(***************************************************************************)
(* C16: a tag node's firstseen is the store time of the load_tags call     *)
(* that created the node, and no later load_tags call changes it, whatever *)
(* its update tag, region or resource.                                     *)
(***************************************************************************)
C16_TagFirstseenSetOnce ==
    [][\A a \in Accounts :
          LoadStep(a) =>
              /\ \A t \in DOMAIN neo4j.tags :
                    /\ t \in DOMAIN neo4j'.tags
                    /\ neo4j'.tags[t].firstseen = neo4j.tags[t].firstseen
              /\ \A t \in DOMAIN neo4j'.tags \ DOMAIN neo4j.tags :
                    neo4j'.tags[t].firstseen = clock]_vars

\* a tag node created at time 0 has been merged again at time 1 (the edge
\* written with it says so) by the latest load_tags call
C16_Witness ==
    /\ clock = 1
    /\ \E e \in named_edges(neo4j, last_load.tag_data, last_load.resource_type) :
          /\ e \in DOMAIN neo4j.edges
          /\ neo4j.edges[e].firstseen = 1
          /\ neo4j.tags[e[2]].firstseen = 0
          /\ neo4j.tags[e[2]].lastupdated = last_load.aws_update_tag
          /\ neo4j.tags[e[2]].region = last_load.region

(***************************************************************************)
(* C17: a TAGGED edge's firstseen is the store time of the load_tags call  *)
(* that created the edge: a later load_tags call that merges the same      *)
(* (resource, tag) pair leaves the edge's firstseen as it was.             *)
(***************************************************************************)
C17_EdgeFirstseenSetOnce ==
    [][\A a \in Accounts :
          LoadStep(a) =>
              /\ \A e \in DOMAIN neo4j.edges :
                    /\ e \in DOMAIN neo4j'.edges
                    /\ neo4j'.edges[e].firstseen = neo4j.edges[e].firstseen
              /\ \A e \in DOMAIN neo4j'.edges \ DOMAIN neo4j.edges :
                    neo4j'.edges[e].firstseen = clock]_vars

(***************************************************************************)
(* C18: when the merges of two regions in one run (update tag v) both      *)
(* report the same key:value tag, then in any interleaving of their        *)
(* upserts the final graph has one tag node for the tag, with lastupdated  *)
(* v and the region of the merge that wrote it last, and the TAGGED edges  *)
(* of both resources, each with lastupdated v: no merge is lost.           *)
(***************************************************************************)
merges_done == \A w \in DOMAIN merges : merges[w].done = Len(unwind_rows(merges[w].tag_data, 1))

\* the tag ids that every one of the merges reports for an existing resource
shared_tags ==
    { t \in { tag_id(k) : k \in {K1, K2, K3} } :
        \A w \in DOMAIN merges :
            \E e \in named_edges(neo4j, merges[w].tag_data, merges[w].resource_type) :
                e[2] = t }

C18_TwoRegionMergeConverges ==
    /\ [](merges # NoMerges /\ merges_done =>
            /\ \A t \in shared_tags :
                  /\ t \in DOMAIN neo4j.tags
                  /\ neo4j.tags[t].nodes = 1
                  /\ neo4j.tags[t].lastupdated = merges[1].aws_update_tag
                  /\ neo4j.tags[t].region \in { merges[w].region : w \in DOMAIN merges }
            /\ \A w \in DOMAIN merges :
                  \A e \in named_edges(neo4j, merges[w].tag_data, merges[w].resource_type) :
                      /\ e \in DOMAIN neo4j.edges
                      /\ neo4j.edges[e].rels = 1
                      /\ neo4j.edges[e].lastupdated = merges[w].aws_update_tag)
    /\ [][\A w \in DOMAIN merges :
             merges'[w].done = merges[w].done + 1 =>
                 /\ \A t \in DOMAIN neo4j'.tags :
                       (t \notin DOMAIN neo4j.tags \/ neo4j'.tags[t] # neo4j.tags[t]) =>
                           neo4j'.tags[t].region = merges[w].region
                 /\ DOMAIN neo4j.tags \subseteq DOMAIN neo4j'.tags
                 /\ DOMAIN neo4j.edges \subseteq DOMAIN neo4j'.edges]_vars

\* both merges reported a:b:c and are done, the one of region r2 wrote the
\* node first and the one of region r1 last
C18_Witness ==
    /\ merges # NoMerges
    /\ merges_done
    /\ "a:b:c" \in shared_tags
    /\ neo4j.tags["a:b:c"].region = "r1"
    /\ \E e \in DOMAIN neo4j.edges :
          e[2] = "a:b:c" /\ e[1].region = "r2" /\ neo4j.edges[e].firstseen = 0
    /\ \E e \in DOMAIN neo4j.edges :
          e[2] = "a:b:c" /\ e[1].region = "r1" /\ neo4j.edges[e].firstseen = 1
====
